---------------------------- MODULE Spec2Model ----------------------------
(***************************************************************************)
(* A model of the retrieval-augmented question answering service:          *)
(*   src/src/rag/service.py    QAService, name resolution, the singleton   *)
(*   src/src/rag/retriever.py  RetrievalEngine, filter and context builder *)
(*                                                                         *)
(* Text is modelled character by character: a string is a sequence of      *)
(* one-character strings.  Characters outside ASCII are written as tokens: *)
(*   "RSQUO" U+2019,  "ACIRC" U+00E2,  "EURO" U+20AC,  "TM" U+2122,        *)
(*   "TAB"   U+0009,  "NBSP"  U+00A0,  "IDOT" U+0130,  "DOTABOVE" U+0307.  *)
(***************************************************************************)
EXTENDS Integers, Sequences, FiniteSets, TLC

\* Optional[T]: None is the empty set, a value x is {x}.
None == {}
Some(x) == {x}
The(o) == CHOOSE x \in o : TRUE

(***************************************************************************)
(* Characters and strings                                                  *)
(***************************************************************************)

\* str.isspace for the characters of the model
IsSpace(c) == c \in {" ", "TAB", "NBSP"}

\* the regex class \w (Unicode letters, digits, underscore)
IsWordChar(c) ==
    c \in {"a", "b", "c", "i", "s", "w", "A", "B", "C", "S", "ACIRC", "IDOT"}

\* str.lower on one character
LowerChar(c) ==
    CASE c = "A" -> "a"
      [] c = "B" -> "b"
      [] c = "C" -> "c"
      [] c = "S" -> "s"
      [] OTHER   -> c

RECURSIVE Lower(_)
\* str.lower; U+0130 lowers to two characters, "i" and U+0307
Lower(s) ==
    IF s = <<>> THEN <<>>
    ELSE (IF Head(s) = "IDOT" THEN <<"i", "DOTABOVE">> ELSE <<LowerChar(Head(s))>>)
         \o Lower(Tail(s))

RECURSIVE LStrip(_)
\* str.lstrip
LStrip(s) == IF s # <<>> /\ IsSpace(Head(s)) THEN LStrip(Tail(s)) ELSE s

RECURSIVE RStrip(_)
\* str.rstrip
RStrip(s) ==
    IF s # <<>> /\ IsSpace(s[Len(s)]) THEN RStrip(SubSeq(s, 1, Len(s) - 1)) ELSE s

\* str.strip
Strip(s) == RStrip(LStrip(s))

\* s.endswith(suffix)
EndsWith(s, suffix) ==
    /\ Len(s) >= Len(suffix)
    /\ SubSeq(s, Len(s) - Len(suffix) + 1, Len(s)) = suffix

\* s without its last n characters
DropLast(s, n) == SubSeq(s, 1, Len(s) - n)

RECURSIVE CollapseWhitespace(_)
\* re.sub(r"\s+", " ", s): every maximal run of whitespace becomes one space
CollapseWhitespace(s) ==
    IF s = <<>> THEN <<>>
    ELSE IF IsSpace(Head(s))
         THEN <<" ">> \o CollapseWhitespace(LStrip(s))
         ELSE <<Head(s)>> \o CollapseWhitespace(Tail(s))

RECURSIVE SplitWhitespace(_)
\* str.split() with no argument: the maximal runs of non-whitespace
SplitWhitespace(s) ==
    LET t == LStrip(s)
        n == IF \E i \in 1..Len(t) : IsSpace(t[i])
             THEN (CHOOSE i \in 1..Len(t) :
                      IsSpace(t[i]) /\ \A j \in 1..(i - 1) : ~IsSpace(t[j])) - 1
             ELSE Len(t)
    IN  IF t = <<>> THEN <<>>
        ELSE <<SubSeq(t, 1, n)>> \o SplitWhitespace(SubSeq(t, n + 1, Len(t)))

\* all strings over alphabet of length at most n
StringsUpTo(alphabet, n) == UNION {[1..k -> alphabet] : k \in 0..n}

(***************************************************************************)
(* service.py: _normalize_member_name                                      *)
(***************************************************************************)

\* re.sub(r"(?:'s|<U+2019>s)$", "", cleaned): case-sensitive, anchored at the end
SubPossessive(cleaned) ==
    IF EndsWith(cleaned, <<"'", "s">>) \/ EndsWith(cleaned, <<"RSQUO", "s">>)
    THEN DropLast(cleaned, 2)
    ELSE cleaned

\* _normalize_member_name(value)
NormalizeMemberName(value) ==
    Lower(CollapseWhitespace(SubPossessive(Strip(value))))

(***************************************************************************)
(* retriever.py: _strip_possessive, _tokenize_name, _build_metadata_filter *)
(***************************************************************************)

\* _strip_possessive(value): re.sub(r"(?:'s|<U+00E2><U+20AC><U+2122>s)$", "", value.strip())
StripPossessive(value) ==
    LET v == Strip(value)
    IN  IF EndsWith(v, <<"'", "s">>) THEN DropLast(v, 2)
        ELSE IF EndsWith(v, <<"ACIRC", "EURO", "TM", "s">>) THEN DropLast(v, 4)
        ELSE v

RECURSIVE SplitNonWord(_)
\* re.split(r"\W+", s) with the empty pieces dropped
SplitNonWord(s) ==
    IF s = <<>> THEN <<>>
    ELSE IF ~IsWordChar(Head(s)) THEN SplitNonWord(Tail(s))
    ELSE LET n == IF \E i \in 1..Len(s) : ~IsWordChar(s[i])
                  THEN (CHOOSE i \in 1..Len(s) :
                          ~IsWordChar(s[i]) /\ \A j \in 1..(i - 1) : IsWordChar(s[j])) - 1
                  ELSE Len(s)
         IN  <<SubSeq(s, 1, n)>> \o SplitNonWord(SubSeq(s, n + 1, Len(s)))

\* _tokenize_name(value)
TokenizeName(value) == SplitNonWord(Lower(value))

\* {"user_name_normalized": {"$eq": normalized}}
EqClause(normalized) ==
    [field |-> "user_name_normalized", op |-> "$eq", value |-> normalized]

\* {"user_name_tokens": {"$in": [token]}}
InClause(token) ==
    [field |-> "user_name_tokens", op |-> "$in", value |-> <<token>>]

\* the mutant: a single clause is wrapped in a conjunction like any other
WrapClausesAlways(clauses) ==
    IF clauses = <<>> THEN None
    ELSE Some([op |-> "$and", clauses |-> clauses])

\* _build_metadata_filter, lines 182-186: None, the clause itself, or {"$and": clauses}
WrapClauses(clauses) ==
    IF clauses = <<>> THEN None
    ELSE IF Len(clauses) = 1 THEN Some(clauses[1])
    ELSE Some([op |-> "$and", clauses |-> clauses])

\* _build_metadata_filter(target_name); target_name is an Optional string
BuildMetadataFilter(target) ==
    IF target = None \/ The(target) = <<>> THEN None
    ELSE LET normalized == Strip(Lower(StripPossessive(The(target))))
             tokens     == TokenizeName(normalized)
             clauses    ==
                 (IF normalized # <<>> THEN <<EqClause(normalized)>> ELSE <<>>)
                 \o [i \in 1..Len(tokens) |-> InClause(tokens[i])]
         IN  WrapClauses(clauses)

(***************************************************************************)
(* difflib (standard library), as service.py:290 uses it                   *)
(***************************************************************************)

\* ord(c)
CharCode(c) ==
    CASE c = "TAB" -> 9     [] c = " " -> 32     [] c = "'" -> 39
      [] c = "A" -> 65      [] c = "B" -> 66     [] c = "C" -> 67
      [] c = "S" -> 83      [] c = "a" -> 97     [] c = "b" -> 98
      [] c = "c" -> 99      [] c = "s" -> 115    [] c = "w" -> 119
      [] c = "NBSP" -> 160  [] c = "?" -> 63
      [] c = "ACIRC" -> 226 [] c = "RSQUO" -> 8217
      [] c = "EURO" -> 8364 [] c = "TM" -> 8482
      [] OTHER -> 0

RECURSIVE StrLess(_, _)
\* x < y on Python strings: lexicographic by code point
StrLess(x, y) ==
    IF y = <<>> THEN FALSE
    ELSE IF x = <<>> THEN TRUE
    ELSE IF Head(x) # Head(y) THEN CharCode(Head(x)) < CharCode(Head(y))
    ELSE StrLess(Tail(x), Tail(y))

\* the blocks <<i, j, k>> with a[i..i+k-1] = b[j..j+k-1], k >= 1
CommonBlocks(a, b) ==
    {t \in (1..Len(a)) \X (1..Len(b)) \X (1..Len(a)) :
        /\ t[1] + t[3] - 1 <= Len(a)
        /\ t[2] + t[3] - 1 <= Len(b)
        /\ SubSeq(a, t[1], t[1] + t[3] - 1) = SubSeq(b, t[2], t[2] + t[3] - 1)}

\* SequenceMatcher.find_longest_match: k maximal, then i least, then j least
LongestMatch(a, b) ==
    CHOOSE t \in CommonBlocks(a, b) :
        \A u \in CommonBlocks(a, b) :
            \/ t[3] > u[3]
            \/ t[3] = u[3] /\ t[1] < u[1]
            \/ t[3] = u[3] /\ t[1] = u[1] /\ t[2] <= u[2]

RECURSIVE MatchingSize(_, _)
\* the total size of SequenceMatcher.get_matching_blocks()
MatchingSize(a, b) ==
    IF CommonBlocks(a, b) = {} THEN 0
    ELSE LET t == LongestMatch(a, b)
         IN  t[3]
             + MatchingSize(SubSeq(a, 1, t[1] - 1), SubSeq(b, 1, t[2] - 1))
             + MatchingSize(SubSeq(a, t[1] + t[3], Len(a)), SubSeq(b, t[2] + t[3], Len(b)))

\* SequenceMatcher(a=x, b=word).ratio() >= 0.5, ratio = 2.0 * M / T (1.0 when T = 0)
RatioAtLeastCutoff(x, word) ==
    Len(x) + Len(word) = 0 \/ 4 * MatchingSize(x, word) >= Len(x) + Len(word)

\* (ratio(x), x) < (ratio(y), y) as heapq.nlargest compares the pairs
ScoredLess(x, y, word) ==
    LET mx == MatchingSize(x, word) * (Len(y) + Len(word))
        my == MatchingSize(y, word) * (Len(x) + Len(word))
    IN  mx < my \/ (mx = my /\ StrLess(x, y))

RECURSIVE NLargest(_, _, _)
\* heapq.nlargest(n, result): the n best candidates, best first
NLargest(n, candidates, word) ==
    IF n = 0 \/ candidates = {} THEN <<>>
    ELSE LET best == CHOOSE x \in candidates :
                        \A y \in candidates \ {x} : ScoredLess(y, x, word)
         IN  <<best>> \o NLargest(n - 1, candidates \ {best}, word)

\* get_close_matches(word, possibilities, n, cutoff=0.5)
GetCloseMatches(word, possibilities, n) ==
    NLargest(n, {x \in possibilities : RatioAtLeastCutoff(x, word)}, word)

(***************************************************************************)
(* service.py: _load_known_names, the registry                             *)
(*                                                                         *)
(* The registry file is [state, entries]: state is "missing", "corrupt"    *)
(* or "ok", entries the list of [raw, normalized], each field an Optional  *)
(* string (None: the key is absent or its value is no string).  The two    *)
(* dictionaries are functions from keys to values.                         *)
(***************************************************************************)

EmptyDict == <<>>

\* dict.setdefault(key, value)
SetDefault(dict, key, value) ==
    IF key \in DOMAIN dict THEN dict ELSE dict @@ (key :> value)

\* lines 57-63: the key an entry is stored under, None when the entry is skipped
EntryKey(entry) ==
    IF entry.raw = None \/ Strip(The(entry.raw)) = <<>> THEN None
    ELSE IF entry.normalized # None /\ Strip(The(entry.normalized)) # <<>>
         THEN entry.normalized
         ELSE Some(NormalizeMemberName(The(entry.raw)))

\* lines 65-68: first_name_index after one entry
IndexEntry(index, normalized, display) ==
    LET tokens == SplitWhitespace(normalized)
    IN  IF normalized = <<>> \/ tokens = <<>> THEN index
        ELSE LET first_token == tokens[1]
                 names == IF first_token \in DOMAIN index
                          THEN index[first_token] ELSE <<>>
             IN  IF \E i \in 1..Len(names) : names[i] = display THEN index
                 ELSE [t \in DOMAIN index \cup {first_token} |->
                          IF t = first_token THEN Append(names, display) ELSE index[t]]

RECURSIVE LoadEntries(_, _, _)
\* lines 52-69: the loop over raw_entries
LoadEntries(entries, normalized_map, first_name_index) ==
    IF entries = <<>> THEN <<normalized_map, first_name_index>>
    ELSE LET entry == Head(entries)
             key   == EntryKey(entry)
         IN  IF key = None
             THEN LoadEntries(Tail(entries), normalized_map, first_name_index)
             ELSE LoadEntries(Tail(entries),
                      SetDefault(normalized_map, The(key), Strip(The(entry.raw))),
                      IndexEntry(first_name_index, The(key), Strip(The(entry.raw))))

\* _load_known_names(): <<known_names_map, first_name_index>>
LoadKnownNames(file) ==
    IF file.state \in {"missing", "corrupt"} THEN <<EmptyDict, EmptyDict>>
    ELSE LoadEntries(file.entries, EmptyDict, EmptyDict)

(***************************************************************************)
(* service.py: MemberResolution, _resolve_member_name, _suggest_names      *)
(***************************************************************************)

\* MemberResolution(display_name, normalized_filter, error)
MemberResolution(display_name, normalized_filter, error) ==
    [display_name |-> display_name, normalized_filter |-> normalized_filter,
     error |-> error]

\* _suggest_names(normalized, limit=5)
SuggestNames(known_names_map, normalized, limit) ==
    IF normalized = <<>> \/ DOMAIN known_names_map = {} THEN <<>>
    ELSE LET matches == GetCloseMatches(normalized, DOMAIN known_names_map, limit)
         IN  [i \in 1..Len(matches) |-> known_names_map[matches[i]]]

RECURSIVE Join(_)
\* ", ".join(names)
Join(names) ==
    IF names = <<>> THEN <<>>
    ELSE IF Len(names) = 1 THEN names[1]
    ELSE names[1] \o <<",", " ">> \o Join(Tail(names))

\* _format_invalid_name_message(suggestions)
FormatInvalidNameMessage(suggestions) ==
    IF suggestions # <<>>
    THEN <<"Enter a valid name. Closest matches: ">> \o Join(suggestions)
    ELSE <<"Enter a valid name. No close matches found.">>

\* the mutant: the first of several first-token matches is taken
AnyMatch(matches) == Len(matches) >= 1

\* line 264: len(matches) == 1
UniqueMatch(matches) == Len(matches) = 1

\* the mutant: the message is also passed as the display name
UnknownWithDisplay(message) ==
    MemberResolution(Some(message), None, Some(message))

\* line 270: the Unknown outcome
UnknownResolution(message) == MemberResolution(None, None, Some(message))

\* the suggestion limit, the default of _suggest_names
SuggestLimit == 5

\* the mutant: first_name_index[first_token], which a defaultdict answers for a
\* missing key by storing an empty list under it
IndexGetItem(index, key) ==
    [value |-> IF key \in DOMAIN index THEN index[key] ELSE <<>>,
     index |-> IF key \in DOMAIN index THEN index ELSE index @@ (key :> <<>>)]

\* line 263, first_name_index.get(first_token, []): the list the lookup gives and
\* the dictionary after it
IndexGet(index, key) ==
    [value |-> IF key \in DOMAIN index THEN index[key] ELSE <<>>,
     index |-> index]

\* _resolve_member_name(detected_name); detected_name is an Optional string
ResolveMemberName(known_names_map, first_name_index, detected_name) ==
    IF detected_name = None \/ The(detected_name) = <<>>
    THEN MemberResolution(None, None, None)
    ELSE LET normalized == NormalizeMemberName(The(detected_name))
             tokens     == SplitWhitespace(normalized)
             matches    == IF tokens # <<>>
                           THEN IndexGet(first_name_index, tokens[1]).value ELSE <<>>
         IN  IF DOMAIN known_names_map = {}
             THEN MemberResolution(detected_name, Some(normalized), None)
             ELSE IF normalized \in DOMAIN known_names_map
             THEN MemberResolution(Some(known_names_map[normalized]), Some(normalized), None)
             ELSE IF tokens # <<>> /\ UniqueMatch(matches)
             THEN MemberResolution(Some(matches[1]),
                                   Some(NormalizeMemberName(matches[1])), None)
             ELSE UnknownResolution(FormatInvalidNameMessage(
                      SuggestNames(known_names_map, normalized, SuggestLimit)))

\* first_name_index after _resolve_member_name(detected_name): the lookup of
\* line 263 is the one access to it, made when the candidate is no key
IndexAfterResolve(known_names_map, first_name_index, detected_name) ==
    IF detected_name = None \/ The(detected_name) = <<>> THEN first_name_index
    ELSE LET normalized == NormalizeMemberName(The(detected_name))
             tokens     == SplitWhitespace(normalized)
         IN  IF DOMAIN known_names_map = {} \/ normalized \in DOMAIN known_names_map
                \/ tokens = <<>>
             THEN first_name_index
             ELSE IndexGet(first_name_index, tokens[1]).index

\* retriever.py _extract_target_name, lines 163-168: the first PERSON entity's text
\* (None when the recognizer finds none), possessive stripped, trimmed, or None
ExtractTargetName(person) ==
    IF person = None THEN None
    ELSE LET candidate == Strip(StripPossessive(The(person)))
         IN  IF candidate = <<>> THEN None ELSE Some(candidate)

(***************************************************************************)
(* retriever.py: _parse_timestamp, _build_context                          *)
(*                                                                         *)
(* Instants are 0..DatetimeMax: 0 is the epoch, DatetimeMax is             *)
(* datetime.max.  A raw timestamp is [kind, t]:                            *)
(*   "absent"  no timestamp key (Python None)                              *)
(*   "empty"   the string ""                                               *)
(*   "junk"    a string no format parses                                   *)
(*   "iso"     the ISO-8601 string of instant t                            *)
(*   "epoch"   the number t, POSIX seconds                                 *)
(* A match is [metadata]: None, or a record of text and message (Optional  *)
(* strings), timestamp (raw) and user_name (Optional string; None when     *)
(* absent or no string).  The context string is modelled as the sequence   *)
(* of its lines, which "\n\n".join puts together, a line as the record of  *)
(* the three parts its f-string formats.                                   *)
(***************************************************************************)

\* datetime.max, the key of an entry without a parsed timestamp (line 218)
DatetimeMax == 3

\* _parse_timestamp(value): an Optional instant
ParseTimestamp(raw) ==
    CASE raw.kind = "absent" -> None
      [] raw.kind = "epoch"  -> IF raw.t < DatetimeMax THEN Some(raw.t) ELSE None
      [] raw.kind = "empty"  -> None
      [] raw.kind = "iso"    -> Some(raw.t)
      [] OTHER               -> None

\* bool(raw_timestamp), line 207
TimestampTruthy(raw) ==
    CASE raw.kind = "absent" -> FALSE
      [] raw.kind = "empty"  -> FALSE
      [] raw.kind = "epoch"  -> raw.t # 0
      [] OTHER               -> TRUE

UnknownMember == <<"Unknown member">>

\* lines 205-208: f"{timestamp_label}{display_user}: {text.strip()}"
RenderLine(raw_timestamp, user_name, text) ==
    [timestamp_label |-> IF TimestampTruthy(raw_timestamp) THEN Some(raw_timestamp) ELSE None,
     display_user    |-> IF user_name # None THEN Strip(The(user_name)) ELSE UnknownMember,
     text            |-> Strip(text)]

\* line 199: metadata.get("text") or metadata.get("message")
MatchText(metadata) ==
    IF metadata.text # None /\ The(metadata.text) # <<>> THEN metadata.text
    ELSE metadata.message

\* lines 192-201: whether the match is kept
Kept(match) ==
    /\ match.metadata # None
    /\ MatchText(The(match.metadata)) # None
    /\ Strip(The(MatchText(The(match.metadata)))) # <<>>

\* lines 208-216: what is appended to ordered and to snippets for match idx
Entry(match, idx) ==
    LET metadata == The(match.metadata)
        text     == The(MatchText(metadata))
    IN  [parsed_timestamp |-> ParseTimestamp(metadata.timestamp),
         idx     |-> idx,
         line    |-> RenderLine(metadata.timestamp, metadata.user_name, text),
         snippet |-> [timestamp        |-> metadata.timestamp,
                      parsed_timestamp |-> ParseTimestamp(metadata.timestamp),
                      user_name        |-> metadata.user_name,
                      text             |-> Strip(text)]]

RECURSIVE KeptEntries(_, _)
\* lines 191-216: the loop over enumerate(matches); idx counts from 0
KeptEntries(matches, idx) ==
    IF matches = <<>> THEN <<>>
    ELSE (IF Kept(Head(matches)) THEN <<Entry(Head(matches), idx)>> ELSE <<>>)
         \o KeptEntries(Tail(matches), idx + 1)

\* line 218: key=lambda item: (item[0] or datetime.max, item[1])
SortKey(entry) ==
    <<IF entry.parsed_timestamp # None THEN The(entry.parsed_timestamp) ELSE DatetimeMax,
      entry.idx>>

\* key(x) < key(y), tuples compared left to right
KeyLess(x, y) ==
    \/ SortKey(x)[1] < SortKey(y)[1]
    \/ SortKey(x)[1] = SortKey(y)[1] /\ SortKey(x)[2] < SortKey(y)[2]

RECURSIVE Insert(_, _)
Insert(entry, sorted) ==
    IF sorted = <<>> THEN <<entry>>
    ELSE IF KeyLess(entry, Head(sorted)) THEN <<entry>> \o sorted
    ELSE <<Head(sorted)>> \o Insert(entry, Tail(sorted))

RECURSIVE Sorted(_)
\* list.sort(key=...): the keys are pairwise different, so the order is theirs
Sorted(entries) ==
    IF entries = <<>> THEN <<>>
    ELSE Insert(entries[Len(entries)], Sorted(SubSeq(entries, 1, Len(entries) - 1)))

\* seq[:n] for n >= 0
Prefix(seq, n) == SubSeq(seq, 1, IF n < Len(seq) THEN n ELSE Len(seq))

\* _build_context(matches): <<the lines of the context string, snippets>>
BuildContext(matches, top_k) ==
    LET entries == KeptEntries(matches, 0)
        ordered == Prefix(Sorted(entries), top_k)
        kept    == Prefix(entries, top_k)
    IN  <<[i \in 1..Len(ordered) |-> ordered[i].line],
          [i \in 1..Len(kept) |-> kept[i].snippet]>>

(***************************************************************************)
(* retriever.py: _normalize_question, _strip_question_prefix               *)
(***************************************************************************)

\* unicodedata.normalize("NFKC", c) and the replacements of lines 35-45
NormalizeQuestionChar(c) ==
    CASE c = "NBSP"  -> " "
      [] c = "RSQUO" -> "'"
      [] OTHER       -> c

\* _normalize_question(value)
NormalizeQuestion(q) == [i \in 1..Len(q) |-> NormalizeQuestionChar(q[i])]

RECURSIVE DropPrefixChars(_)
DropPrefixChars(q) ==
    IF q # <<>> /\ (IsSpace(Head(q)) \/ Head(q) \in {"?", "'"})
    THEN DropPrefixChars(Tail(q)) ELSE q

\* _strip_question_prefix(value): the leading punctuation goes, unless nothing is left
StripQuestionPrefix(q) == IF DropPrefixChars(q) = <<>> THEN q ELSE DropPrefixChars(q)

\* parse_question, lines 115-117: the normalized question, None for ValueError
ParseQuestion(q) ==
    IF Strip(NormalizeQuestion(q)) = <<>> THEN None
    ELSE Some(Strip(NormalizeQuestion(q)))

(***************************************************************************)
(* service.py: QAService.get_answer, line 136                              *)
(***************************************************************************)

\* the mutant: the error of the resolution is not looked at
NeverFailsFast(res) == FALSE

\* if resolution.error: (a message is never empty)
FailsFast(res) == res.error # None

(***************************************************************************)
(* service.py: _extract_final_answer, _build_context_summary, _call_groq   *)
(*                                                                         *)
(* A response of the generation endpoint is [fault, status, body]: fault   *)
(* is a requests.exceptions.RequestException (timeout, connection), body   *)
(* is [json, choices]: whether it is JSON, and data["choices"] (None       *)
(* without the key), a list of the Optional message contents.              *)
(***************************************************************************)

Marker == <<"a", "n", "s", "w", "e", "r", ":">>

\* str.rfind(marker): the last index (from 0) marker occurs at, -1 if none
RFind(s, marker) ==
    LET at == {i \in 0..(Len(s) - Len(marker)) : SubSeq(s, i + 1, i + Len(marker)) = marker}
    IN  IF at = {} THEN -1 ELSE CHOOSE i \in at : \A j \in at : j <= i

\* _extract_final_answer(raw_response)
ExtractFinalAnswer(raw_response) ==
    IF raw_response = <<>> THEN raw_response
    ELSE LET idx       == RFind(Lower(raw_response), Marker)
             extracted == Strip(SubSeq(raw_response, idx + Len(Marker) + 1, Len(raw_response)))
         IN  IF idx # -1 /\ extracted # <<>> THEN extracted ELSE Strip(raw_response)

\* the longest preview, and what is kept of a longer text (line 240)
PreviewLimit == 160
PreviewKept == 157

\* _build_context_summary(retrieval)
BuildContextSummary(target, snips) ==
    [member_name |->
        IF target # None /\ The(target) # <<>> THEN The(target)
        ELSE <<"Name not explicitly mentioned; assume the member in the question.">>,
     snippet_count |-> Len(snips),
     latest_activity |->
        IF snips = <<>> THEN <<"No activity found.">>
        ELSE LET latest  == snips[Len(snips)]
                 ts      == IF TimestampTruthy(latest.timestamp)
                            THEN <<latest.timestamp>> ELSE <<"timestamp not provided">>
                 text    == Strip(latest.text)
                 preview == IF Len(text) <= PreviewLimit THEN text
                            ELSE SubSeq(text, 1, PreviewKept) \o <<".", ".", ".">>
             IN  IF text # <<>> THEN ts \o <<" - ">> \o preview ELSE ts]

\* lines 153-162: the user message
UserContent(asked_question, lines, target, snips) ==
    [summary  |-> BuildContextSummary(target, snips),
     context  |-> IF lines # <<>> THEN lines ELSE <<"No relevant context was retrieved.">>,
     question |-> asked_question]

\* lines 190-229: what _call_groq does with the response of the one post
GroqOutcome(resp) ==
    IF resp.fault THEN [kind |-> "raise", value |-> Some(<<"RuntimeError">>)]
    ELSE IF resp.status >= 400 THEN [kind |-> "raise", value |-> Some(<<"RuntimeError">>)]
    ELSE IF ~resp.body.json THEN [kind |-> "raise", value |-> Some(<<"JSONDecodeError">>)]
    ELSE IF resp.body.choices = None \/ The(resp.body.choices) = <<>>
         THEN [kind |-> "raise", value |-> Some(<<"RuntimeError">>)]
    ELSE IF The(resp.body.choices)[1] = None \/ The(The(resp.body.choices)[1]) = <<>>
         THEN [kind |-> "raise", value |-> Some(<<"RuntimeError">>)]
    ELSE [kind |-> "return",
          value |-> Some(ExtractFinalAnswer(Strip(The(The(resp.body.choices)[1]))))]

(***************************************************************************)
(* State                                                                   *)
(***************************************************************************)

VARIABLES
    phase,              \* where a run of one of the pure operations stands
    value, cleaned,     \* _normalize_member_name: the input, the successive results
    target_name, filter_clause,     \* _build_metadata_filter: input and result
    registry_file,      \* config/known_names.json
    known_names_map, first_name_index,      \* QAService's registry
    detected_name, resolution,      \* _resolve_member_name: input and result
    matches, top_k,     \* _build_context: the matches of the query, self.top_k
    context, snippets,  \* _build_context: the lines of the context, the snippets
    groq_api_key,       \* whether the environment sets GROQ_API_KEY
    qa_service,         \* the module's _qa_service: None or an instance
    instances,          \* how many QAService objects have been constructed
    pc,                 \* per thread: where its get_answer call stands
    question,           \* per thread: the question of the call
    service,            \* per thread: the instance it constructed or was given
    detected,           \* per thread: detected_name
    resolved,           \* per thread: resolution
    retrieval,          \* per thread: the RetrievalResult, None before retrieve
    calls,              \* per thread: the collaborators called within the request
    outcome,            \* per thread: what the call returned or raised
    asked,              \* QAService.get_answer: the question
    retrieved,          \* the RetrievalResult's target_name and metadata_filter
    called,             \* the collaborators called within the request
    posts,              \* the posts to the generation endpoint within the request
    response,           \* the response to the post, None before it
    user_content,       \* the user message of the post, None before it
    answer,             \* what QAService.get_answer returned or raised
    raw_response, final_answer  \* _extract_final_answer: input and result

normVars    == <<value, cleaned>>
filterVars  == <<target_name, filter_clause>>
resolveVars == <<registry_file, known_names_map, first_name_index,
                 detected_name, resolution>>
contextVars == <<matches, top_k, context, snippets>>
serviceVars == <<groq_api_key, qa_service, instances, pc, question, service,
                 detected, resolved, retrieval, calls, outcome>>
answerVars  == <<asked, retrieved, called, posts, response, user_content, answer>>
extractVars == <<raw_response, final_answer>>
vars == <<phase, normVars, filterVars, resolveVars, contextVars, serviceVars, answerVars,
          extractVars>>

allButNorm    == <<filterVars, resolveVars, contextVars, serviceVars, answerVars,
                   extractVars>>
allButFilter  == <<normVars, resolveVars, contextVars, serviceVars, answerVars,
                   extractVars>>
allButResolve == <<normVars, filterVars, contextVars, serviceVars, answerVars,
                   extractVars>>
allButContext == <<normVars, filterVars, resolveVars, serviceVars, answerVars,
                   extractVars>>
allButService == <<phase, normVars, filterVars, contextVars, answerVars, extractVars,
                   known_names_map, first_name_index, detected_name, resolution>>
allButAnswer  == <<normVars, filterVars, serviceVars, extractVars>>
allButExtract == <<normVars, filterVars, resolveVars, contextVars, serviceVars,
                   answerVars>>

(***************************************************************************)
(* The variables of the operations a specification does not exercise       *)
(***************************************************************************)

NormIdle == value = <<>> /\ cleaned = <<>>

FilterIdle == target_name = None /\ filter_clause = None

ResolveIdle ==
    /\ registry_file = [state |-> "missing", entries |-> <<>>]
    /\ known_names_map = EmptyDict
    /\ first_name_index = EmptyDict
    /\ detected_name = None
    /\ resolution = MemberResolution(None, None, None)

ContextIdle == matches = <<>> /\ top_k = 0 /\ context = <<>> /\ snippets = <<>>

ServiceIdle ==
    /\ groq_api_key = FALSE
    /\ qa_service = None
    /\ instances = 0
    /\ pc = <<>> /\ question = <<>> /\ service = <<>> /\ detected = <<>>
    /\ resolved = <<>> /\ retrieval = <<>> /\ calls = <<>> /\ outcome = <<>>

NoOutcome == [kind |-> "none", value |-> None]
Returned(v) == [kind |-> "return", value |-> Some(v)]
Raised(e) == [kind |-> "raise", value |-> Some(e)]

AnswerIdle ==
    /\ asked = <<>> /\ retrieved = None /\ called = {} /\ posts = 0
    /\ response = None /\ user_content = None /\ answer = NoOutcome

ExtractIdle == raw_response = <<>> /\ final_answer = None

IdleButNorm ==
    FilterIdle /\ ResolveIdle /\ ContextIdle /\ ServiceIdle /\ AnswerIdle /\ ExtractIdle
IdleButFilter ==
    NormIdle /\ ResolveIdle /\ ContextIdle /\ ServiceIdle /\ AnswerIdle /\ ExtractIdle
IdleButResolve ==
    NormIdle /\ FilterIdle /\ ContextIdle /\ ServiceIdle /\ AnswerIdle /\ ExtractIdle
IdleButContext ==
    NormIdle /\ FilterIdle /\ ResolveIdle /\ ServiceIdle /\ AnswerIdle /\ ExtractIdle
IdleButAnswer  == NormIdle /\ FilterIdle /\ ServiceIdle /\ ExtractIdle
IdleButExtract ==
    NormIdle /\ FilterIdle /\ ResolveIdle /\ ContextIdle /\ ServiceIdle /\ AnswerIdle

(***************************************************************************)
(* SpecNormalize: _normalize_member_name applied once and once more        *)
(***************************************************************************)

MaxValueLen == 4

ValueAlphabet == {"a", "A", "s", "S", "'", "RSQUO", " ", "TAB"}

InitNormalize ==
    /\ phase = "input"
    /\ value \in StringsUpTo(ValueAlphabet, MaxValueLen)
    /\ cleaned = <<>>
    /\ IdleButNorm

\* cleaned = _normalize_member_name(value)
Normalize ==
    /\ phase = "input"
    /\ cleaned' = <<NormalizeMemberName(value)>>
    /\ phase' = "once"
    /\ UNCHANGED <<value, allButNorm>>

\* _normalize_member_name applied to its own result
NormalizeAgain ==
    /\ phase = "once"
    /\ cleaned' = Append(cleaned, NormalizeMemberName(cleaned[1]))
    /\ phase' = "twice"
    /\ UNCHANGED <<value, allButNorm>>

NextNormalize == Normalize \/ NormalizeAgain

SpecNormalize == InitNormalize /\ [][NextNormalize]_vars

\* C6: normalization is idempotent: normalizing a normalized name changes nothing
NormalizeIdempotent == phase = "twice" => cleaned[2] = cleaned[1]

(***************************************************************************)
(* SpecFilter: _build_metadata_filter                                      *)
(***************************************************************************)

MaxTargetLen == 4

TargetAlphabet == {"a", "A", "s", "'", " ", "ACIRC", "EURO", "TM"}

InitFilter ==
    /\ phase = "input"
    /\ target_name \in {None} \cup {Some(t) : t \in StringsUpTo(TargetAlphabet, MaxTargetLen)}
    /\ filter_clause = None
    /\ IdleButFilter

\* filter_clause = self._build_metadata_filter(target_name)
BuildFilter ==
    /\ phase = "input"
    /\ filter_clause' = BuildMetadataFilter(target_name)
    /\ phase' = "built"
    /\ UNCHANGED <<target_name, allButFilter>>

NextFilter == BuildFilter

SpecFilter == InitFilter /\ [][NextFilter]_vars

\* the clause list the filter is built from: equality on the name, then one
\* membership clause per token
ExpectedClauses(name, tokens) ==
    (IF name # <<>> THEN <<EqClause(name)>> ELSE <<>>)
    \o [i \in 1..Len(tokens) |-> InClause(tokens[i])]

\* C7: the filter is None for a None target; otherwise None for zero clauses, the
\* clause itself for one clause, a conjunction of all clauses for two or more
\* ("a s" gives equality on "a s" AND membership of "a" AND membership of "s")
FilterShape ==
    phase = "built" =>
        IF target_name = None THEN filter_clause = None
        ELSE LET name    == Strip(Lower(StripPossessive(The(target_name))))
                 tokens  == TokenizeName(name)
                 clauses == ExpectedClauses(name, tokens)
             IN  /\ Len(clauses) = 0 => filter_clause = None
                 /\ Len(clauses) = 1 => filter_clause = {clauses[1]}
                 /\ Len(clauses) >= 2 =>
                        /\ filter_clause # None
                        /\ The(filter_clause).op = "$and"
                        /\ The(filter_clause).clauses = clauses
                 /\ The(target_name) = <<"a", " ", "s">> =>
                        filter_clause =
                            Some([op |-> "$and",
                                  clauses |-> <<EqClause(<<"a", " ", "s">>),
                                                InClause(<<"a">>), InClause(<<"s">>)>>])

\* a name of punctuation only has been given its single, unwrapped equality clause
FilterSingleClauseBuilt ==
    /\ phase = "built"
    /\ target_name = Some(<<"'", "'">>)
    /\ filter_clause = Some(EqClause(<<"'", "'">>))

(***************************************************************************)
(* SpecResolve: the registry is loaded, then names are resolved            *)
(***************************************************************************)

MaxEntries == 2

MaxPersonLen == 3

PersonAlphabet == {"a", "b", "c", "A", " "}

\* the entries a registry file is made of
EntryPool ==
    { [raw |-> Some(<<"A", " ", "b">>), normalized |-> Some(<<"a", " ", "b">>)],
      [raw |-> Some(<<"A", " ", "c">>), normalized |-> None],
      [raw |-> Some(<<"a", " ", "b">>), normalized |-> Some(<<"a", " ", "b">>)],
      [raw |-> Some(<<"b", "'", "s">>), normalized |-> None],
      [raw |-> Some(<<" ">>), normalized |-> Some(<<"c">>)] }

RegistryFiles ==
    { [state |-> "missing", entries |-> <<>>], [state |-> "corrupt", entries |-> <<>>] }
    \cup { [state |-> "ok", entries |-> e] :
             e \in UNION {[1..k -> EntryPool] : k \in 0..MaxEntries} }

\* the text of the first PERSON entity the recognizer reports, None for none
Persons == {None} \cup {Some(t) : t \in StringsUpTo(PersonAlphabet, MaxPersonLen)}

InitResolve ==
    /\ phase = "start"
    /\ registry_file \in RegistryFiles
    /\ known_names_map = EmptyDict
    /\ first_name_index = EmptyDict
    /\ detected_name = None
    /\ resolution = MemberResolution(None, None, None)
    /\ IdleButResolve

\* QAService.__init__, lines 127-130
LoadRegistry ==
    /\ phase = "start"
    /\ known_names_map' = LoadKnownNames(registry_file)[1]
    /\ first_name_index' = LoadKnownNames(registry_file)[2]
    /\ phase' = "loaded"
    /\ UNCHANGED <<registry_file, detected_name, resolution, allButResolve>>

\* get_answer, lines 134-135: the name is extracted and resolved
Resolve ==
    /\ phase = "loaded"
    /\ \E person \in Persons :
          /\ detected_name' = ExtractTargetName(person)
          /\ resolution' = ResolveMemberName(known_names_map, first_name_index,
                                             ExtractTargetName(person))
          /\ first_name_index' = IndexAfterResolve(known_names_map, first_name_index,
                                                   ExtractTargetName(person))
    /\ phase' = "resolved"
    /\ UNCHANGED <<registry_file, known_names_map, allButResolve>>

\* get_answer returns: the request's values are discarded
Return ==
    /\ phase = "resolved"
    /\ detected_name' = None
    /\ resolution' = MemberResolution(None, None, None)
    /\ phase' = "loaded"
    /\ UNCHANGED <<registry_file, known_names_map, first_name_index, allButResolve>>

NextResolve == LoadRegistry \/ Resolve \/ Return

SpecResolve == InitResolve /\ [][NextResolve]_vars

\* the display names the first token of the candidate maps to
FirstTokenNames ==
    LET tokens == SplitWhitespace(NormalizeMemberName(The(detected_name)))
    IN  IF tokens # <<>> /\ tokens[1] \in DOMAIN first_name_index
        THEN first_name_index[tokens[1]] ELSE <<>>

\* C5: with a registry, an exact key match returns the key's display name;
\* otherwise a first token with exactly one display name resolves to it;
\* otherwise (none, or two or more) the result is Unknown and names nobody
ResolveTiers ==
    (phase = "resolved" /\ DOMAIN known_names_map # {} /\ detected_name # None) =>
        LET normalized == NormalizeMemberName(The(detected_name))
        IN  IF normalized \in DOMAIN known_names_map
            THEN /\ resolution.display_name = Some(known_names_map[normalized])
                 /\ resolution.error = None
            ELSE IF Len(FirstTokenNames) = 1
            THEN /\ resolution.display_name = Some(FirstTokenNames[1])
                 /\ resolution.error = None
            ELSE /\ resolution.display_name = None
                 /\ resolution.normalized_filter = None
                 /\ resolution.error # None

\* a candidate that is no key and whose first token is shared by two members
\* has been refused
AmbiguousFirstTokenRefused ==
    /\ phase = "resolved"
    /\ detected_name # None
    /\ NormalizeMemberName(The(detected_name)) \notin DOMAIN known_names_map
    /\ Len(FirstTokenNames) >= 2
    /\ resolution.error # None

\* C8: a resolution is Unknown (error alone), Resolved (display name and filter,
\* no error) or Unresolved (nothing): never a display name together with an error
ResolutionOneVariant ==
    phase = "resolved" =>
        \/ /\ resolution.error # None
           /\ resolution.display_name = None /\ resolution.normalized_filter = None
        \/ /\ resolution.error = None
           /\ resolution.display_name # None /\ resolution.normalized_filter # None
        \/ /\ resolution.error = None
           /\ resolution.display_name = None /\ resolution.normalized_filter = None

\* each of the three variants has been returned (here: Unknown)
UnknownReturned ==
    /\ phase = "resolved"
    /\ detected_name # None
    /\ resolution.error # None

\* C12: once loaded, the two dictionaries of the registry keep the value the
\* load gave them, whatever names are resolved and suggested for afterwards
RegistryReadOnly ==
    phase \in {"loaded", "resolved"} =>
        /\ known_names_map = LoadKnownNames(registry_file)[1]
        /\ first_name_index = LoadKnownNames(registry_file)[2]

\* a candidate that is no key and whose first token is not in the index has
\* been looked up, and refused with suggestions, in a loaded registry
MissingFirstTokenLookedUp ==
    /\ phase = "resolved"
    /\ detected_name # None
    /\ DOMAIN known_names_map # {}
    /\ NormalizeMemberName(The(detected_name)) \notin DOMAIN known_names_map
    /\ SplitWhitespace(NormalizeMemberName(The(detected_name))) # <<>>
    /\ SplitWhitespace(NormalizeMemberName(The(detected_name)))[1]
           \notin DOMAIN LoadKnownNames(registry_file)[2]
    /\ resolution.error # None
    /\ Len(The(resolution.error)) > 1

\* C14: every display name the first-token index holds is a value of
\* known_names_map, so that a first token has two or more names only when two
\* members of the registry share it
IndexNamesAreMembers ==
    phase \in {"loaded", "resolved"} =>
        \A t \in DOMAIN first_name_index :
            \A i \in 1..Len(first_name_index[t]) :
                \E k \in DOMAIN known_names_map :
                    known_names_map[k] = first_name_index[t][i]

(***************************************************************************)
(* SpecContext: _build_context                                             *)
(***************************************************************************)

MaxMatches == 3

MaxTopK == 2

RawTimestamps ==
    { [kind |-> "absent", t |-> 0], [kind |-> "junk", t |-> 0],
      [kind |-> "iso", t |-> 1], [kind |-> "iso", t |-> 2],
      [kind |-> "iso", t |-> DatetimeMax], [kind |-> "epoch", t |-> 0] }

UserNames == {None, Some(<<" ">>), Some(<<"a", " ">>)}

\* the matches a query returns: without metadata, with a blank text, with a
\* message instead of a text, and with a text under every timestamp and user
MatchPool ==
    { [metadata |-> None],
      [metadata |-> Some([text |-> Some(<<" ">>), message |-> Some(<<"b">>),
                          timestamp |-> [kind |-> "iso", t |-> 1], user_name |-> None])],
      [metadata |-> Some([text |-> Some(<<>>), message |-> Some(<<"b", " ">>),
                          timestamp |-> [kind |-> "iso", t |-> 1], user_name |-> None])] }
    \cup { [metadata |-> Some([text |-> Some(<<"w">>), message |-> None,
                               timestamp |-> ts, user_name |-> u])] :
             ts \in RawTimestamps, u \in UserNames }

InitContext ==
    /\ phase = "input"
    /\ matches \in UNION {[1..k -> MatchPool] : k \in 0..MaxMatches}
    /\ top_k \in 0..MaxTopK
    /\ context = <<>>
    /\ snippets = <<>>
    /\ IdleButContext

\* context, snippets = self._build_context(matches)
AssembleContext ==
    /\ phase = "input"
    /\ context' = BuildContext(matches, top_k)[1]
    /\ snippets' = BuildContext(matches, top_k)[2]
    /\ phase' = "built"
    /\ UNCHANGED <<matches, top_k, allButContext>>

NextContext == AssembleContext

SpecContext == InitContext /\ [][NextContext]_vars

\* C3: the snippets are in the order of the context lines and describe the same
\* entries: line i of the context is the rendered line of snippet i
SnippetsFollowContext ==
    phase = "built" =>
        /\ Len(snippets) = Len(context)
        /\ \A i \in 1..Len(context) :
              context[i] = RenderLine(snippets[i].timestamp, snippets[i].user_name,
                                      snippets[i].text)

\* x comes before y in chronological order with the unknown timestamps last,
\* equal timestamps and unknown ones in input order
Chronological(x, y) ==
    \/ x.parsed_timestamp # None /\ y.parsed_timestamp = None
    \/ /\ x.parsed_timestamp # None /\ y.parsed_timestamp # None
       /\ The(x.parsed_timestamp) < The(y.parsed_timestamp)
    \/ /\ x.parsed_timestamp = y.parsed_timestamp
       /\ x.idx < y.idx

\* C4: the context lists the first top_k kept matches of the chronological order,
\* the entries without a parsed timestamp after all the others
ContextChronological ==
    phase = "built" =>
        LET entries == KeptEntries(matches, 0)
            size    == IF top_k < Len(entries) THEN top_k ELSE Len(entries)
        IN  /\ Len(context) = size
            /\ \E order \in [1..Len(entries) -> 1..Len(entries)] :
                  /\ \A i, j \in 1..Len(entries) :
                        i < j => Chronological(entries[order[i]], entries[order[j]])
                  /\ \A i \in 1..size : context[i] = entries[order[i]].line

\* the line the matches' description gives for a kept match: "Unknown member"
\* for an absent or blank user name, the bracketed raw timestamp when there is one
DescribedLine(match) ==
    LET metadata == The(match.metadata)
    IN  [timestamp_label |-> IF metadata.timestamp.kind # "absent"
                             THEN Some(metadata.timestamp) ELSE None,
         display_user    |-> IF metadata.user_name = None
                                \/ Strip(The(metadata.user_name)) = <<>>
                             THEN UnknownMember ELSE Strip(The(metadata.user_name)),
         text            |-> Strip(The(MatchText(metadata)))]

\* C13: every line of the context is the line of a kept match with the display
\* user "Unknown member" when the user name is absent or blank, the trimmed user
\* name otherwise, and the raw timestamp in brackets exactly when it is present
LinesAsDescribed ==
    phase = "built" =>
        \A i \in 1..Len(context) :
            \E j \in 1..Len(matches) :
                Kept(matches[j]) /\ context[i] = DescribedLine(matches[j])

(***************************************************************************)
(* Spec: concurrent calls of the module's get_answer(question)             *)
(*                                                                         *)
(* Each thread runs get_answer: _get_service (the check of the global, the *)
(* constructor, the store to the global, the read that is returned), then  *)
(* QAService.get_answer.  The interpreter may switch threads between any   *)
(* two of these steps.  The recognizer is a collaborator: the entity it    *)
(* reports is any of Entities.                                             *)
(***************************************************************************)

NumThreads == 2

Threads == 1..NumThreads

Questions == {<<>>, <<"NBSP", " ">>, <<"?", "w", "RSQUO", "s">>}

\* what the recognizer may report as the first PERSON entity
Entities == {None, Some(<<"a", "'", "s">>), Some(<<"c", " ", "b">>)}

\* config/known_names.json of the running service
ServiceRegistry ==
    [state |-> "ok",
     entries |-> <<[raw |-> Some(<<"A", " ", "b">>), normalized |-> Some(<<"a", " ", "b">>)],
                   [raw |-> Some(<<"b", "'", "s">>), normalized |-> None]>>]

Init ==
    /\ groq_api_key \in BOOLEAN
    /\ registry_file = ServiceRegistry
    /\ qa_service = None
    /\ instances = 0
    /\ pc = [t \in Threads |-> "idle"]
    /\ question = [t \in Threads |-> <<>>]
    /\ service = [t \in Threads |-> None]
    /\ detected = [t \in Threads |-> None]
    /\ resolved = [t \in Threads |-> MemberResolution(None, None, None)]
    /\ retrieval = [t \in Threads |-> None]
    /\ calls = [t \in Threads |-> {}]
    /\ outcome = [t \in Threads |-> NoOutcome]
    /\ phase = "service"
    /\ known_names_map = EmptyDict /\ first_name_index = EmptyDict
    /\ detected_name = None /\ resolution = MemberResolution(None, None, None)
    /\ NormIdle /\ FilterIdle /\ ContextIdle /\ AnswerIdle /\ ExtractIdle

\* a request arrives: get_answer(q) is called on thread t
Call(t) ==
    /\ pc[t] = "idle"
    /\ \E q \in Questions : question' = [question EXCEPT ![t] = q]
    /\ pc' = [pc EXCEPT ![t] = "get_service"]
    /\ UNCHANGED <<groq_api_key, registry_file, qa_service, instances, service,
                   detected, resolved, retrieval, calls, outcome, allButService>>

\* _get_service, line 305: if _qa_service is None
CheckService(t) ==
    /\ pc[t] = "get_service"
    /\ pc' = [pc EXCEPT ![t] = IF qa_service = None THEN "construct" ELSE "return_service"]
    /\ UNCHANGED <<groq_api_key, registry_file, qa_service, instances, question, service,
                   detected, resolved, retrieval, calls, outcome, allButService>>

\* line 306, QAService(): the retrieval engine (vector index client, embedder,
\* recognizer model) is set up, then GROQ_API_KEY is required, then the registry is loaded
Construct(t) ==
    /\ pc[t] = "construct"
    /\ calls' = [calls EXCEPT ![t] = @ \cup {"model_init"}]
    /\ IF groq_api_key
       THEN /\ instances' = instances + 1
            /\ service' = [service EXCEPT ![t] =
                   Some([id |-> instances + 1,
                         known_names_map |-> LoadKnownNames(registry_file)[1],
                         first_name_index |-> LoadKnownNames(registry_file)[2]])]
            /\ pc' = [pc EXCEPT ![t] = "assign"]
            /\ UNCHANGED outcome
       ELSE /\ outcome' = [outcome EXCEPT ![t] = Raised(<<"EnvironmentError">>)]
            /\ pc' = [pc EXCEPT ![t] = "done"]
            /\ UNCHANGED <<instances, service>>
    /\ UNCHANGED <<groq_api_key, registry_file, qa_service, question,
                   detected, resolved, retrieval, allButService>>

\* line 306, the store: _qa_service = <the new instance>
Assign(t) ==
    /\ pc[t] = "assign"
    /\ qa_service' = service[t]
    /\ pc' = [pc EXCEPT ![t] = "return_service"]
    /\ UNCHANGED <<groq_api_key, registry_file, instances, question, service,
                   detected, resolved, retrieval, calls, outcome, allButService>>

\* line 307: return _qa_service, the global as it is now
ReturnService(t) ==
    /\ pc[t] = "return_service"
    /\ service' = [service EXCEPT ![t] = qa_service]
    /\ pc' = [pc EXCEPT ![t] = "parse"]
    /\ UNCHANGED <<groq_api_key, registry_file, qa_service, instances, question,
                   detected, resolved, retrieval, calls, outcome, allButService>>

\* QAService.get_answer, line 134: parse_question raises on a blank question,
\* else runs the recognizer
Parse(t) ==
    /\ pc[t] = "parse"
    /\ IF ParseQuestion(question[t]) = None
       THEN /\ outcome' = [outcome EXCEPT ![t] = Raised(<<"ValueError">>)]
            /\ pc' = [pc EXCEPT ![t] = "done"]
            /\ UNCHANGED <<detected, calls>>
       ELSE /\ calls' = [calls EXCEPT ![t] = @ \cup {"recognizer"}]
            /\ \E person \in Entities :
                  detected' = [detected EXCEPT ![t] = ExtractTargetName(person)]
            /\ pc' = [pc EXCEPT ![t] = "resolve"]
            /\ UNCHANGED outcome
    /\ UNCHANGED <<groq_api_key, registry_file, qa_service, instances, question, service,
                   resolved, retrieval, allButService>>

\* lines 135-137: the name is resolved; an error is returned at once
ResolveName(t) ==
    /\ pc[t] = "resolve"
    /\ LET res == ResolveMemberName(The(service[t]).known_names_map,
                                    The(service[t]).first_name_index, detected[t])
       IN  /\ resolved' = [resolved EXCEPT ![t] = res]
           /\ IF FailsFast(res)
              THEN /\ outcome' = [outcome EXCEPT ![t] = Returned(The(res.error))]
                   /\ pc' = [pc EXCEPT ![t] = "done"]
              ELSE /\ pc' = [pc EXCEPT ![t] = "retrieve"]
                   /\ UNCHANGED outcome
    /\ UNCHANGED <<groq_api_key, registry_file, qa_service, instances, question, service,
                   detected, retrieval, calls, allButService>>

\* lines 139-144: retrieve parses again, embeds and queries the index (which may
\* fail); the resolved filter and display name take precedence
Retrieve(t) ==
    /\ pc[t] = "retrieve"
    /\ calls' = [calls EXCEPT ![t] = @ \cup {"recognizer", "embedder", "vector_search"}]
    /\ \/ /\ outcome' = [outcome EXCEPT ![t] = Raised(<<"vector search failed">>)]
          /\ pc' = [pc EXCEPT ![t] = "done"]
          /\ UNCHANGED retrieval
       \/ /\ \E person \in Entities :
                LET override  == resolved[t].normalized_filter
                    extracted == ExtractTargetName(person)
                    target    == IF override # None /\ The(override) # <<>>
                                 THEN override ELSE extracted
                    display   == resolved[t].display_name
                IN  retrieval' = [retrieval EXCEPT ![t] =
                        Some([target_name |-> IF display # None /\ The(display) # <<>>
                                              THEN display ELSE target,
                              metadata_filter |-> BuildMetadataFilter(target)])]
          /\ pc' = [pc EXCEPT ![t] = "generate"]
          /\ UNCHANGED outcome
    /\ UNCHANGED <<groq_api_key, registry_file, qa_service, instances, question, service,
                   detected, resolved, allButService>>

\* lines 145-149: _call_groq posts once and returns the answer or raises
Generate(t) ==
    /\ pc[t] = "generate"
    /\ calls' = [calls EXCEPT ![t] = @ \cup {"generation"}]
    /\ \E result \in {Returned(<<"answer">>), Raised(<<"RuntimeError">>)} :
          outcome' = [outcome EXCEPT ![t] = result]
    /\ pc' = [pc EXCEPT ![t] = "done"]
    /\ UNCHANGED <<groq_api_key, registry_file, qa_service, instances, question, service,
                   detected, resolved, retrieval, allButService>>

\* the call has ended: what belonged to the request is discarded
Finish(t) ==
    /\ pc[t] = "done"
    /\ pc' = [pc EXCEPT ![t] = "idle"]
    /\ question' = [question EXCEPT ![t] = <<>>]
    /\ service' = [service EXCEPT ![t] = None]
    /\ detected' = [detected EXCEPT ![t] = None]
    /\ resolved' = [resolved EXCEPT ![t] = MemberResolution(None, None, None)]
    /\ retrieval' = [retrieval EXCEPT ![t] = None]
    /\ calls' = [calls EXCEPT ![t] = {}]
    /\ outcome' = [outcome EXCEPT ![t] = NoOutcome]
    /\ UNCHANGED <<groq_api_key, registry_file, qa_service, instances, allButService>>

Next ==
    \E t \in Threads :
        \/ Call(t) \/ CheckService(t) \/ Construct(t) \/ Assign(t) \/ ReturnService(t)
        \/ Parse(t) \/ ResolveName(t) \/ Retrieve(t) \/ Generate(t) \/ Finish(t)

Spec == Init /\ [][Next]_vars

\* C2: under any interleaving the shared service instance is constructed at most
\* once, and all requests work with the same instance
ConstructedOnce ==
    /\ instances <= 1
    /\ \A t, u \in Threads :
          (pc[t] \in {"parse", "resolve", "retrieve", "generate"}
           /\ pc[u] \in {"parse", "resolve", "retrieve", "generate"})
          => service[t] = service[u]

\* C9: a request with a blank question ends in an error and calls no collaborator,
\* model and client initialization included, also when it is the first request
BlankQuestionCallsNothing ==
    \A t \in Threads :
        (pc[t] = "done" /\ ParseQuestion(question[t]) = None) =>
            /\ outcome[t].kind = "raise"
            /\ calls[t] = {}

(***************************************************************************)
(* SpecAnswer: one QAService serving get_answer calls one after another    *)
(***************************************************************************)

MaxRetrieved == 2

AnswerRegistries == {ServiceRegistry, [state |-> "missing", entries |-> <<>>]}

\* what the vector index may return
RetrievedPool ==
    { [metadata |-> None],
      [metadata |-> Some([text |-> Some(<<"w", " ">>), message |-> None,
                          timestamp |-> [kind |-> "iso", t |-> 2], user_name |-> Some(<<"a">>)])],
      [metadata |-> Some([text |-> Some(<<"b">>), message |-> None,
                          timestamp |-> [kind |-> "absent", t |-> 0], user_name |-> None])] }

Statuses == {200, 302, 500}

Contents ==
    { None, Some(<<>>), Some(<<" ">>), Some(<<"b", " ">>),
      Some(<<"A", "n", "s", "w", "e", "r", ":", " ", "b">>) }

Bodies ==
    { [json |-> FALSE, choices |-> None], [json |-> TRUE, choices |-> None],
      [json |-> TRUE, choices |-> Some(<<>>)] }
    \cup { [json |-> TRUE, choices |-> Some(<<c>>)] : c \in Contents }

GroqResponses ==
    { [fault |-> TRUE, status |-> 0, body |-> [json |-> FALSE, choices |-> None]] }
    \cup { [fault |-> FALSE, status |-> st, body |-> b] : st \in Statuses, b \in Bodies }

InitAnswer ==
    /\ phase = "start"
    /\ registry_file \in AnswerRegistries
    /\ known_names_map = EmptyDict
    /\ first_name_index = EmptyDict
    /\ detected_name = None
    /\ resolution = MemberResolution(None, None, None)
    /\ top_k \in 0..MaxTopK
    /\ matches = <<>> /\ context = <<>> /\ snippets = <<>>
    /\ AnswerIdle
    /\ IdleButAnswer

\* get_answer(question), line 134: parse_question raises on a blank question,
\* else runs the recognizer
Ask ==
    /\ phase = "loaded"
    /\ \E q \in Questions :
          /\ asked' = q
          /\ IF ParseQuestion(q) = None
             THEN /\ answer' = Raised(<<"ValueError">>)
                  /\ phase' = "returned"
                  /\ UNCHANGED <<detected_name, called>>
             ELSE /\ called' = called \cup {"recognizer"}
                  /\ \E person \in Entities : detected_name' = ExtractTargetName(person)
                  /\ phase' = "parsed"
                  /\ UNCHANGED answer
    /\ UNCHANGED <<registry_file, known_names_map, first_name_index, resolution,
                   contextVars, retrieved, posts, response, user_content, allButAnswer>>

\* lines 135-137: the name is resolved; an error is returned at once
ResolveDetected ==
    /\ phase = "parsed"
    /\ LET res == ResolveMemberName(known_names_map, first_name_index, detected_name)
       IN  /\ resolution' = res
           /\ first_name_index' = IndexAfterResolve(known_names_map, first_name_index,
                                                    detected_name)
           /\ IF FailsFast(res)
              THEN /\ answer' = Returned(The(res.error))
                   /\ phase' = "returned"
              ELSE /\ phase' = "retrieving"
                   /\ UNCHANGED answer
    /\ UNCHANGED <<registry_file, known_names_map, detected_name,
                   contextVars, asked, retrieved, called, posts, response, user_content,
                   allButAnswer>>

\* lines 139-144, RetrievalEngine.retrieve: parse again, embed, query the index
\* (which may fail), assemble the context; then the display name is substituted
RetrieveContext ==
    /\ phase = "retrieving"
    /\ called' = called \cup {"recognizer", "embedder", "vector_search"}
    /\ \/ /\ answer' = Raised(<<"vector search failed">>)
          /\ phase' = "returned"
          /\ UNCHANGED <<retrieved, matches, context, snippets>>
       \/ /\ \E person \in Entities :
                LET override  == resolution.normalized_filter
                    extracted == ExtractTargetName(person)
                    target    == IF override # None /\ The(override) # <<>>
                                 THEN override ELSE extracted
                    display   == resolution.display_name
                IN  retrieved' =
                        Some([target_name |-> IF display # None /\ The(display) # <<>>
                                              THEN display ELSE target,
                              metadata_filter |-> BuildMetadataFilter(target)])
          /\ \E found \in UNION {[1..k -> RetrievedPool] : k \in 0..MaxRetrieved} :
                /\ matches' = found
                /\ context' = BuildContext(found, top_k)[1]
                /\ snippets' = BuildContext(found, top_k)[2]
          /\ phase' = "generating"
          /\ UNCHANGED answer
    /\ UNCHANGED <<registry_file, known_names_map, first_name_index, detected_name,
                   resolution, top_k, asked, posts, response, user_content, allButAnswer>>

\* lines 145-149, _call_groq: the prompt is built, posted once, and the response
\* becomes the answer or an error
CallGroq ==
    /\ phase = "generating"
    /\ called' = called \cup {"generation"}
    /\ posts' = posts + 1
    /\ user_content' = Some(UserContent(The(ParseQuestion(asked)), context,
                                        The(retrieved).target_name, snippets))
    /\ \E resp \in GroqResponses :
          /\ response' = Some(resp)
          /\ answer' = GroqOutcome(resp)
    /\ phase' = "returned"
    /\ UNCHANGED <<resolveVars, contextVars, asked, retrieved, allButAnswer>>

\* the call has ended: what belonged to the request is discarded
EndRequest ==
    /\ phase = "returned"
    /\ phase' = "loaded"
    /\ detected_name' = None
    /\ resolution' = MemberResolution(None, None, None)
    /\ matches' = <<>> /\ context' = <<>> /\ snippets' = <<>>
    /\ asked' = <<>> /\ retrieved' = None /\ called' = {} /\ posts' = 0
    /\ response' = None /\ user_content' = None /\ answer' = NoOutcome
    /\ UNCHANGED <<registry_file, known_names_map, first_name_index, top_k, allButAnswer>>

NextAnswer ==
    LoadRegistry \/ Ask \/ ResolveDetected \/ RetrieveContext \/ CallGroq \/ EndRequest

SpecAnswer == InitAnswer /\ [][NextAnswer]_vars

\* C1: once the resolution carries an error the call has returned exactly that
\* message, and no vector search and no generation call was made in the request
UnknownReturnsError ==
    resolution.error # None =>
        /\ phase = "returned"
        /\ answer = Returned(The(resolution.error))
        /\ called \cap {"embedder", "vector_search", "generation"} = {}
        /\ posts = 0

\* a request about an unknown name has returned the message with its suggestions
UnknownNameReturned ==
    /\ phase = "returned"
    /\ resolution.error # None
    /\ Len(The(resolution.error)) > 1
    /\ answer.kind = "return"

\* a generation call that failed: a network fault, a status outside 2xx, a body
\* that is no JSON, choices missing or empty, content missing or empty
GenerationFailed(resp) ==
    \/ resp.fault
    \/ resp.status < 200 \/ resp.status > 299
    \/ ~resp.body.json
    \/ resp.body.choices = None
    \/ resp.body.choices = Some(<<>>)
    \/ \E c \in {None, Some(<<>>)} : resp.body.choices = Some(<<c>>)

\* C10: a failed generation call ends the request with a raised error, never with
\* an answer, and the endpoint is called at most once per request
FailedGenerationRaises ==
    /\ posts <= 1
    /\ (response # None /\ GenerationFailed(The(response))) => answer.kind = "raise"

(***************************************************************************)
(* SpecExtract: _extract_final_answer applied to a response of the model   *)
(***************************************************************************)

MaxPartLen == 1

PartAlphabet == {"b", " ", ":", "IDOT"}

\* the text around the markers
Parts == StringsUpTo(PartAlphabet, MaxPartLen)

\* the marker as a response may spell it, or no marker
MarkerForms ==
    { <<>>, Marker,
      <<"A", "n", "s", "w", "e", "r", ":">>,
      <<"A", "n", "S", "w", "e", "r", ":">> }

\* responses with no, one or two markers
Responses ==
    { p \o m \o q \o n \o r : p \in Parts, m \in MarkerForms, q \in Parts,
                              n \in MarkerForms, r \in Parts }

InitExtract ==
    /\ phase = "input"
    /\ raw_response \in Responses
    /\ final_answer = None
    /\ IdleButExtract

\* final_answer = _extract_final_answer(raw_response)
ExtractAnswer ==
    /\ phase = "input"
    /\ final_answer' = Some(ExtractFinalAnswer(raw_response))
    /\ phase' = "extracted"
    /\ UNCHANGED <<raw_response, allButExtract>>

NextExtract == ExtractAnswer

SpecExtract == InitExtract /\ [][NextExtract]_vars

\* the offsets (from 0) in s where the marker stands, in any letter case
MarkerOffsets(s) ==
    { i \in 0..(Len(s) - Len(Marker)) :
        \A k \in 1..Len(Marker) : LowerChar(s[i + k]) = Marker[k] }

\* the text that follows the last marker of s
AfterLastMarker(s) ==
    LET last == CHOOSE i \in MarkerOffsets(s) : \A j \in MarkerOffsets(s) : j <= i
    IN  SubSeq(s, last + Len(Marker) + 1, Len(s))

\* C11: the result is the trimmed text after the last marker, in any letter
\* case, of a response that contains the marker, and the trimmed response of
\* one that does not
ExtractsAfterLastMarker ==
    phase = "extracted" =>
        The(final_answer) = IF MarkerOffsets(raw_response) # {}
                         THEN Strip(AfterLastMarker(raw_response))
                         ELSE Strip(raw_response)

====
